---------------------------- MODULE Spec2Model ----------------------------
(***************************************************************************)
(* A model of wavenet_modules.py: the dilated queue (DilatedQueue), the    *)
(* padding primitive (ConstantPad1d / constant_pad_1d), the dilation       *)
(* transform (dilate) and the shape and branch logic of the discretized    *)
(* mixture-of-logistics loss and sampler.                                  *)
(*                                                                         *)
(* A buffer column (all channels of one time step) is one value; 0 is the  *)
(* all-zero column.  The queue code only moves whole columns.              *)
(***************************************************************************)
EXTENDS Integers, Sequences, FiniteSets, TLC

VARIABLES
    queue,   \* the DilatedQueue object: max_length, data, in_pos, out_pos
    call,    \* the last queue method called, its arguments, the state before it
    ret,     \* what the last queue method returned (a window, from dequeue)
    hist,    \* lockstep use: the samples enqueued so far, s_0 .. s_t
    pc,      \* position of the caller
    inp,     \* the arguments of the function under study
    out      \* what it returned

vars == <<queue, call, ret, hist, pc, inp, out>>

\* ------------------------------------------------------------- bounds
MaxLen == 4        \* largest max_length of a queue
MaxNumDeq == 3     \* largest num_deq passed to dequeue
MaxDilation == 3   \* largest dilation passed to dequeue
MaxSample == 1     \* samples (columns) are 0 .. MaxSample
MaxSteps == 7      \* lockstep use: number of enqueue/dequeue steps
MaxPadDim == 2     \* padding: largest size of an axis of the input
MaxPadTarget == 3  \* padding: largest target_size
MaxBatch == 3      \* dilate: largest n (and init_dilation)
MaxChannels == 2   \* dilate: largest c
MaxLength == 5     \* dilate: largest l
MaxDil == 4        \* dilate: largest dilation
MaxRtDilation == 49  \* round trip: largest dilation d
MaxRtRepeat == 3     \* round trip: l is d, 2d, .. MaxRtRepeat * d
MaxRtBatch == 2      \* round trip: largest n

Samples == 0 .. MaxSample
ZeroColumn == 0

NoCall == [op |-> "none"]
NoRet == [raised |-> FALSE, t |-> <<>>]
NoInp == [fn |-> "none"]
NoOut == [fn |-> "none"]

\* ------------------------------------------------------ Python slicing
\* A slice bound as Python normalises it for a sequence of length len and a
\* positive step: a negative bound counts from the end, and every bound is
\* clamped to 0 .. len.
PyBound(i, len) ==
    IF i < 0 THEN (IF i + len < 0 THEN 0 ELSE i + len)
             ELSE (IF i > len THEN len ELSE i)

\* The 0-based indices selected by  [start : stop : step]  (step >= 1).
SliceIndices(len, start, stop, step) ==
    LET s == PyBound(start, len)
        e == PyBound(stop, len)
        cnt == IF e > s THEN (e - s + step - 1) \div step ELSE 0
    IN  [k \in 1 .. cnt |-> s + (k - 1) * step]

\* data[:, start:stop:step]
Slice(buf, start, stop, step) ==
    LET ix == SliceIndices(Len(buf), start, stop, step)
    IN  [k \in 1 .. Len(ix) |-> buf[ix[k] + 1]]

\* ------------------------------------------------------- DilatedQueue
Zeros(n) == [i \in 1 .. n |-> ZeroColumn]

\* DilatedQueue.__init__ with data=None
NewQueue(max_length) ==
    [max_length |-> max_length, data |-> Zeros(max_length),
     in_pos |-> 0, out_pos |-> 0]

enqueue_wrong_slot(q, input) ==
    [q EXCEPT !.data = [q.data EXCEPT ![((q.in_pos + 1) % q.max_length) + 1] = input],
              !.in_pos = (q.in_pos + 1) % q.max_length]

\* DilatedQueue.enqueue: the queue after the call
enqueue(q, input) ==
    [q EXCEPT !.data = [q.data EXCEPT ![q.in_pos + 1] = input],
              !.in_pos = (q.in_pos + 1) % q.max_length]

dequeue_window_from_zero(q, num_deq, dilation) ==
    LET start == q.out_pos - ((num_deq - 1) * dilation)
    IN  IF start < 0
        THEN Slice(q.data, start, q.max_length, dilation)
               \o Slice(q.data, 0, q.out_pos + 1, dilation)
        ELSE Slice(q.data, start, q.out_pos + 1, dilation)

\* DilatedQueue.dequeue: the tensor t it returns (its columns, in order)
dequeue_window(q, num_deq, dilation) ==
    LET start == q.out_pos - ((num_deq - 1) * dilation)
    IN  IF start < 0
        THEN Slice(q.data, start, q.max_length, dilation)
               \o Slice(q.data, q.out_pos % dilation, q.out_pos + 1, dilation)
        ELSE Slice(q.data, start, q.out_pos + 1, dilation)

\* DilatedQueue.dequeue: the queue after the call
dequeue_advance(q) ==
    [q EXCEPT !.out_pos = (q.out_pos + 1) % q.max_length]

\* DilatedQueue.dequeue has no check of its arguments and no raise: every
\* call returns the window the slices select.
dequeue_result(q, num_deq, dilation) ==
    [raised |-> FALSE, t |-> dequeue_window(q, num_deq, dilation)]

reset_keeps_out_pos(q) ==
    [q EXCEPT !.data = Zeros(q.max_length), !.in_pos = 0]

\* DilatedQueue.reset: the queue after the call
reset(q) ==
    [q EXCEPT !.data = Zeros(q.max_length), !.in_pos = 0, !.out_pos = 0]

\* ---------------------------------------------- queue, used in any order
QueueInit ==
    /\ queue \in {NewQueue(m) : m \in 1 .. MaxLen}
    /\ call = NoCall
    /\ ret = NoRet
    /\ hist = <<>>
    /\ pc = "free"
    /\ inp = NoInp
    /\ out = NoOut

Enqueue ==
    \E input \in Samples :
        /\ queue' = enqueue(queue, input)
        /\ call' = [op |-> "enqueue", input |-> input, before |-> queue]
        /\ ret' = NoRet
        /\ UNCHANGED <<hist, pc, inp, out>>

Dequeue ==
    \E num_deq \in 1 .. MaxNumDeq, dilation \in 1 .. MaxDilation :
        /\ ret' = dequeue_result(queue, num_deq, dilation)
        /\ queue' = dequeue_advance(queue)
        /\ call' = [op |-> "dequeue", num_deq |-> num_deq,
                    dilation |-> dilation, before |-> queue]
        /\ UNCHANGED <<hist, pc, inp, out>>

Reset ==
    /\ queue' = reset(queue)
    /\ call' = [op |-> "reset", before |-> queue]
    /\ ret' = NoRet
    /\ UNCHANGED <<hist, pc, inp, out>>

Next == Enqueue \/ Dequeue \/ Reset

Spec == QueueInit /\ [][Next]_vars


\* The capacity dequeue(num_deq, dilation) needs.
Sufficient(q, num_deq, dilation) ==
    q.max_length >= dilation * (num_deq - 1) + 1

\* C1: whenever dequeue(num_deq, dilation) is called on a queue with
\* max_length >= dilation*(num_deq-1)+1, at any read cursor, it returns exactly
\* num_deq columns and the k-th of them (k = 0 .. num_deq-1) is the buffer
\* column at index (out_pos - (num_deq-1-k)*dilation) mod max_length, out_pos
\* being the read cursor before the call.
C1_DequeueIsCircularWindow ==
    (call.op = "dequeue" /\ Sufficient(call.before, call.num_deq, call.dilation))
    => LET q == call.before
           nd == call.num_deq
           d == call.dilation
       IN  /\ ~ret.raised
           /\ Len(ret.t) = nd
           /\ \A k \in 0 .. nd - 1 :
                ret.t[k + 1] =
                  q.data[((q.out_pos - (nd - 1 - k) * d) % q.max_length) + 1]

\* C1's case: the wrap branch, on a queue whose length is no multiple of the
\* dilation, at a cursor that is no multiple of it either, the window holding
\* different columns.
C1_Witness ==
    /\ call.op = "dequeue"
    /\ Sufficient(call.before, call.num_deq, call.dilation)
    /\ call.before.out_pos - (call.num_deq - 1) * call.dilation < 0
    /\ call.before.max_length % call.dilation # 0
    /\ call.before.out_pos % call.dilation # 0
    /\ Len(ret.t) = call.num_deq
    /\ ret.t[1] # ret.t[call.num_deq]

\* C3: a dequeue(num_deq, dilation) on a queue with
\* max_length < dilation*(num_deq-1)+1 fails with an error, at every read
\* cursor.
C3_InsufficientCapacityRaises ==
    (call.op = "dequeue" /\ ~Sufficient(call.before, call.num_deq, call.dilation))
    => ret.raised

\* C5: after reset(), whatever came before, in_pos = 0, out_pos = 0, every
\* buffer cell is zero, and the next dequeue(1, 1) returns one all-zero column.
C5_ResetRestoresInitialState ==
    call.op = "reset"
    => /\ queue.in_pos = 0
       /\ queue.out_pos = 0
       /\ \A i \in 1 .. queue.max_length : queue.data[i] = ZeroColumn
       /\ Len(queue.data) = queue.max_length
       /\ dequeue_result(queue, 1, 1) = [raised |-> FALSE, t |-> <<ZeroColumn>>]

\* C5's case: reset() of a queue whose cursors had both moved and whose buffer
\* held a non-zero column at the read cursor.
C5_Witness ==
    /\ call.op = "reset"
    /\ call.before.in_pos # 0
    /\ call.before.out_pos # 0
    /\ call.before.data[call.before.out_pos + 1] # ZeroColumn

\* ------------------------------------------------ queue, used in lockstep
\* Step t: enqueue(s_t), then one dequeue(num_deq, dilation) with the layer's
\* fixed num_deq and dilation; a reset() may come between two steps.
LockInit ==
    /\ queue \in {NewQueue(m) : m \in 1 .. MaxLen}
    /\ inp \in {[fn |-> "lockstep", num_deq |-> nd, dilation |-> d] :
                  nd \in 1 .. MaxNumDeq, d \in 1 .. MaxDilation}
    /\ Sufficient(queue, inp.num_deq, inp.dilation)
    /\ call = NoCall
    /\ ret = NoRet
    /\ hist = <<>>
    /\ pc = "enqueue"
    /\ out = NoOut

LockEnqueue ==
    /\ pc = "enqueue"
    /\ Len(hist) < MaxSteps
    /\ \E input \in Samples :
        /\ queue' = enqueue(queue, input)
        /\ hist' = Append(hist, input)
        /\ call' = [op |-> "enqueue", input |-> input, before |-> queue]
    /\ ret' = NoRet
    /\ pc' = "dequeue"
    /\ UNCHANGED <<inp, out>>

LockDequeue ==
    /\ pc = "dequeue"
    /\ ret' = dequeue_result(queue, inp.num_deq, inp.dilation)
    /\ queue' = dequeue_advance(queue)
    /\ call' = [op |-> "dequeue", num_deq |-> inp.num_deq,
                dilation |-> inp.dilation, before |-> queue]
    /\ pc' = "enqueue"
    /\ UNCHANGED <<hist, inp, out>>

LockReset ==
    /\ pc = "enqueue"
    /\ queue' = reset(queue)
    /\ hist' = <<>>
    /\ call' = [op |-> "reset", before |-> queue]
    /\ ret' = NoRet
    /\ UNCHANGED <<pc, inp, out>>

LockNext == LockEnqueue \/ LockDequeue \/ LockReset

SpecLockstep == LockInit /\ [][LockNext]_vars

\* C2: in lockstep use from a fresh or reset queue, the window returned at
\* step t has num_deq columns in chronological order: column k is
\* s_(t - (num_deq-1-k)*dilation) when that index is >= 0 and the zero column
\* otherwise; so its last column is s_t.
C2_LockstepWindowIsChronological ==
    (pc = "enqueue" /\ call.op = "dequeue")
    => LET t == Len(hist) - 1
           nd == inp.num_deq
           d == inp.dilation
       IN  /\ ~ret.raised
           /\ Len(ret.t) = nd
           /\ ret.t[nd] = hist[t + 1]
           /\ \A k \in 0 .. nd - 1 :
                LET i == t - (nd - 1 - k) * d
                IN  ret.t[k + 1] = IF i >= 0 THEN hist[i + 1] ELSE ZeroColumn

\* C2's case: a step after more than two wraparounds of the buffer, taking
\* the wrap branch, the window holding different samples.
C2_Witness ==
    /\ pc = "enqueue"
    /\ call.op = "dequeue"
    /\ Len(hist) > 2 * queue.max_length
    /\ inp.num_deq >= 2
    /\ call.before.out_pos - (inp.num_deq - 1) * inp.dilation < 0
    /\ Len(ret.t) = inp.num_deq
    /\ ret.t[1] # ret.t[inp.num_deq]


\* ------------------------------------------- Python floats (IEEE binary64)
\* dilate computes its lengths in double precision: int / int and int / float
\* are correctly rounded divisions, float * float a correctly rounded product.
\* A positive double is m * 2^e with 2^52 <= m < 2^53.  The mantissa does not
\* fit a machine integer here, so naturals are kept as little-endian sequences
\* of limbs in base 2^15, without leading zero limbs (<<>> is 0).
MantissaBits == 53
LimbBits == 15
LimbBase == 2 ^ LimbBits

Limb(x, i) == IF i <= Len(x) THEN x[i] ELSE 0

RECURSIVE BigNorm(_)
BigNorm(x) ==
    IF x = <<>> THEN <<>>
    ELSE IF x[Len(x)] = 0 THEN BigNorm(SubSeq(x, 1, Len(x) - 1)) ELSE x

RECURSIVE BigFromInt(_)
BigFromInt(n) ==
    IF n = 0 THEN <<>> ELSE <<n % LimbBase>> \o BigFromInt(n \div LimbBase)

\* Only for values below 2^30.
BigToInt(x) == Limb(x, 1) + LimbBase * Limb(x, 2)

RECURSIVE BigCmpFrom(_, _, _)
BigCmpFrom(x, y, i) ==
    IF i = 0 THEN 0
    ELSE IF x[i] < y[i] THEN -1
    ELSE IF x[i] > y[i] THEN 1
    ELSE BigCmpFrom(x, y, i - 1)

\* -1, 0 or 1 as x < y, x = y or x > y
BigCmp(x, y) ==
    IF Len(x) < Len(y) THEN -1
    ELSE IF Len(x) > Len(y) THEN 1
    ELSE BigCmpFrom(x, y, Len(x))

RECURSIVE BigAddFrom(_, _, _, _)
BigAddFrom(x, y, i, carry) ==
    IF i > Len(x) /\ i > Len(y)
    THEN (IF carry = 0 THEN <<>> ELSE <<carry>>)
    ELSE LET s == Limb(x, i) + Limb(y, i) + carry
         IN  <<s % LimbBase>> \o BigAddFrom(x, y, i + 1, s \div LimbBase)

BigAdd(x, y) == BigAddFrom(x, y, 1, 0)

RECURSIVE BigSubFrom(_, _, _, _)
BigSubFrom(x, y, i, borrow) ==
    IF i > Len(x) THEN <<>>
    ELSE LET s == x[i] - Limb(y, i) - borrow
         IN  <<s % LimbBase>> \o BigSubFrom(x, y, i + 1, IF s < 0 THEN 1 ELSE 0)

\* x - y, for x >= y
BigSub(x, y) == BigNorm(BigSubFrom(x, y, 1, 0))

RECURSIVE BigMulFrom(_, _, _, _)
BigMulFrom(x, k, i, carry) ==
    IF i > Len(x) THEN BigFromInt(carry)
    ELSE LET s == x[i] * k + carry
         IN  <<s % LimbBase>> \o BigMulFrom(x, k, i + 1, s \div LimbBase)

\* x * k, for 1 <= k <= 2^15
BigMulSmall(x, k) == BigMulFrom(x, k, 1, 0)

BigDouble(x) == BigMulSmall(x, 2)

BigIsOdd(x) == x # <<>> /\ x[1] % 2 = 1

\* floor(x / 2)
BigHalf(x) ==
    BigNorm([i \in 1 .. Len(x) |->
               (x[i] \div 2) + (IF Limb(x, i + 1) % 2 = 1 THEN LimbBase \div 2 ELSE 0)])

\* x * 2^k
BigShl(x, k) ==
    IF x = <<>> THEN <<>>
    ELSE [i \in 1 .. (k \div LimbBits) |-> 0] \o BigMulSmall(x, 2 ^ (k % LimbBits))

\* floor(x / 2^k), and whether a non-zero bit was shifted out
BigShr(x, k) ==
    LET ld == k \div LimbBits
        b == k % LimbBits
        lo == 2 ^ b
        hi == 2 ^ (LimbBits - b)
    IN  [q |-> BigNorm([i \in 1 .. (IF Len(x) > ld THEN Len(x) - ld ELSE 0) |->
                          (x[i + ld] \div lo) + (Limb(x, i + ld + 1) % lo) * hi]),
         sticky |-> \/ \E i \in 1 .. Len(x) : i <= ld /\ x[i] # 0
                    \/ Limb(x, ld + 1) % lo # 0]

\* The number of bits of x > 0
BigBitLen(x) ==
    (Len(x) - 1) * LimbBits
      + (CHOOSE k \in 1 .. LimbBits : 2 ^ (k - 1) <= x[Len(x)] /\ x[Len(x)] < 2 ^ k)

\* p / q as (p / q) / 2^e
Scaled(p, q, e) ==
    IF e < 0 THEN [p |-> BigShl(p, 0 - e), q |-> q, e |-> e]
             ELSE [p |-> p, q |-> BigShl(q, e), e |-> e]

\* p and q scaled by a power of two so that 2^52 <= p/q < 2^53; e is the
\* exponent taken out.
ScaleRatio(p, q) ==
    LET k == BigBitLen(p) - BigBitLen(q)
        s == Scaled(p, q, k - (MantissaBits - 1))
    IN  IF BigCmp(s.p, BigShl(s.q, MantissaBits - 1)) >= 0
        THEN s
        ELSE Scaled(p, q, k - MantissaBits)

\* The quotient digit floor(r / q), for r < q * 2^15 and a divisor q whose top
\* limb is at least 2^14: the estimate from the top limbs is the digit or
\* exceeds it by at most 2.
DivDigit(r, q) ==
    LET n == Len(q)
        top == Limb(r, n + 1) * LimbBase + Limb(r, n)
        est == IF top \div q[n] > LimbBase - 1 THEN LimbBase - 1 ELSE top \div q[n]
    IN  IF BigCmp(r, q) < 0 THEN 0
        ELSE CHOOSE g \in {est, est - 1, est - 2} :
                /\ g >= 1
                /\ BigCmp(BigMulSmall(q, g), r) <= 0
                /\ BigCmp(BigMulSmall(q, g + 1), r) > 0

\* Long division of p by q, one limb of p a step from the top (limb i next):
\* r is the remainder so far, acc the quotient limbs so far.
RECURSIVE LongDiv(_, _, _, _, _)
LongDiv(p, q, i, r, acc) ==
    IF i = 0 THEN [q |-> BigNorm(acc), r |-> r]
    ELSE LET rr == BigNorm(<<p[i]>> \o r)
             g == DivDigit(rr, q)
         IN  IF g = 0
             THEN LongDiv(p, q, i - 1, rr, <<0>> \o acc)
             ELSE LongDiv(p, q, i - 1, BigSub(rr, BigMulSmall(q, g)), <<g>> \o acc)

\* p and q times the power of two that brings the top limb of q to 2^14 or more
TopAligned(s) ==
    LET t == LimbBits - (BigBitLen(s.q) - (Len(s.q) - 1) * LimbBits)
    IN  [p |-> BigShl(s.p, t), q |-> BigShl(s.q, t), e |-> s.e]

\* The double m * 2^e nearest to the ratio whose long division gave dv, ties to
\* the even mantissa; s holds the divisor and the exponent taken out.
RoundQuotient(s, dv) ==
    LET c == BigCmp(BigDouble(dv.r), s.q)
        up == c > 0 \/ (c = 0 /\ BigIsOdd(dv.q))
        m == IF up THEN BigAdd(dv.q, <<1>>) ELSE dv.q
    IN  IF BigCmp(m, BigShl(<<1>>, MantissaBits)) >= 0
        THEN [m |-> BigHalf(m), e |-> s.e + 1]
        ELSE [m |-> m, e |-> s.e]

\* The double nearest to s.p / (s.q * 2^s.e), s.q top-aligned.  (The set with
\* one element binds the quotient as a value before it is rounded.)
RoundAligned(s) ==
    CHOOSE f \in {RoundQuotient(s, dv) :
                    dv \in {LongDiv(s.p, s.q, Len(s.p), <<>>, <<>>)}} : TRUE

\* The double nearest to p / q (p, q > 0)
RoundRatio(p, q) ==
    CHOOSE f \in {RoundAligned(s) : s \in {TopAligned(ScaleRatio(p, q))}} : TRUE

\* a / b for Python ints a, b > 0
IntTrueDiv(a, b) == RoundRatio(BigFromInt(a), BigFromInt(b))

\* a / f for a Python int a > 0 and a float f
IntDivFloat(a, f) ==
    IF f.e < 0 THEN RoundRatio(BigShl(BigFromInt(a), 0 - f.e), f.m)
               ELSE RoundRatio(BigFromInt(a), BigShl(f.m, f.e))

\* c * f for an integer-valued float c > 0 and a float f
FloatMul(c, f) ==
    LET cm == BigMulSmall(f.m, c)
    IN  IF f.e < 0 THEN RoundRatio(cm, BigShl(<<1>>, 0 - f.e))
                   ELSE RoundRatio(BigShl(cm, f.e), <<1>>)

\* int(f): the integer part of a float f with 0 < f < 2^30
FloatTrunc(f) == BigToInt(BigShr(f.m, 0 - f.e).q)

\* ceil(f) for a float f with 0 < f < 2^30
FloatCeil(f) ==
    LET s == BigShr(f.m, 0 - f.e)
    IN  BigToInt(s.q) + (IF s.sticky THEN 1 ELSE 0)

\* f == 1
FloatIsOne(f) == f.e = 1 - MantissaBits /\ f.m = BigShl(<<1>>, MantissaBits - 1)

\* ------------------------------------------------------------- tensors
\* A 3-d tensor is its shape and its elements in contiguous (row-major) order.
Numel(shape) == shape[1] * shape[2] * shape[3]

\* The 0-based offset of element [i, j, k]
Offset(shape, i, j, k) == (i * shape[2] + j) * shape[3] + k

\* The index <<i, j, k>> of the element at 0-based offset p
Unravel(shape, p) ==
    <<p \div (shape[2] * shape[3]), (p \div shape[3]) % shape[2], p % shape[3]>>

At(x, i, j, k) == x.flat[Offset(x.shape, i, j, k) + 1]

\* x.permute(perm).contiguous(): axis a of the result is axis perm[a] of x
permute(x, perm) ==
    LET shape == [a \in 1 .. 3 |-> x.shape[perm[a] + 1]]
        Old(ix) == [dd \in 1 .. 3 |-> ix[CHOOSE a \in 1 .. 3 : perm[a] + 1 = dd]]
    IN  [shape |-> shape,
         flat |-> [p \in 1 .. Numel(shape) |->
                     LET o == Old(Unravel(shape, p - 1)) IN At(x, o[1], o[2], o[3])]]

\* x.view(shape) of a contiguous x: the same elements under another shape; an
\* error when the element counts differ.
view(x, shape) ==
    IF Numel(shape) # Numel(x.shape)
    THEN [raised |-> TRUE, t |-> x]
    ELSE [raised |-> FALSE, t |-> [shape |-> shape, flat |-> x.flat]]

\* ------------------------------------------------------- ConstantPad1d
pad_narrow_start_swapped(num_pad, pad_start) == IF pad_start THEN 0 ELSE num_pad

\* ConstantPad1d.forward: where the narrowed view of the output starts
pad_narrow_start(num_pad, pad_start) == IF pad_start THEN num_pad ELSE 0

\* ConstantPad1d.forward: output filled with value, input copied into the
\* narrowed view; the assertion fails when the input is longer than the target.
ConstantPad1d_forward(input, target_size, dimension, value, pad_start) ==
    LET num_pad == target_size - input.shape[dimension + 1]
        size == [input.shape EXCEPT ![dimension + 1] = target_size]
        start == pad_narrow_start(num_pad, pad_start)
        length == size[dimension + 1] - num_pad
        Elem(ix) ==
            LET pos == ix[dimension + 1]
                src == [ix EXCEPT ![dimension + 1] = pos - start]
            IN  IF pos >= start /\ pos < start + length
                THEN At(input, src[1], src[2], src[3])
                ELSE value
    IN  IF num_pad < 0
        THEN [raised |-> TRUE, t |-> input]
        ELSE [raised |-> FALSE,
              t |-> [shape |-> size,
                     flat |-> [p \in 1 .. Numel(size) |-> Elem(Unravel(size, p - 1))]]]

constant_pad_1d(input, target_size, dimension, value, pad_start) ==
    ConstantPad1d_forward(input, target_size, dimension, value, pad_start)

\* -------------------------------------------------------------- dilate
\* new_l = int(np.ceil(l / dilation_factor) * dilation_factor), one operation
\* after the other: the quotient, its ceiling, the product, its integer part.
\* (A set with one element binds each as a value before the next uses it.)
dilate_new_l(l, dilation_factor) ==
    CHOOSE new_l \in
      UNION {UNION {{FloatTrunc(prod) : prod \in {FloatMul(c, dilation_factor)}} :
                      c \in {FloatCeil(quot)}} :
               quot \in {IntDivFloat(l, dilation_factor)}} : TRUE

dilate_reshape_no_permute(x, l, n) ==
    LET v == view(x, <<n, x.shape[2], l>>)
    IN  [raised |-> v.raised, t |-> v.t]

\* The reshape according to dilation: (n, c, l) -> (c, l, n), view as
\* (c, l, n) with the new l and n, (c, l, n) -> (n, c, l)
dilate_reshape(x, l, n) ==
    LET v == view(permute(x, <<1, 2, 0>>), <<x.shape[2], l, n>>)
    IN  IF v.raised THEN [raised |-> TRUE, t |-> x]
        ELSE [raised |-> FALSE, t |-> permute(v.t, <<2, 0, 1>>)]

\* The lengths dilate computes from the shape (n, c, l) of x: dilation_factor
\* is 1 or not, new_l, and the l and n of the view (computed after the padding,
\* so only when new_l >= l).
dilate_sizes(n, l, dilation, init_dilation) ==
    CHOOSE sizes \in
      UNION {{IF FloatIsOne(dilation_factor)
              THEN [identity |-> TRUE, new_l |-> l, l |-> l, n |-> n]
              ELSE IF new_l < l
              THEN [identity |-> FALSE, new_l |-> new_l, l |-> 0, n |-> 0]
              ELSE [identity |-> FALSE, new_l |-> new_l,
                    l |-> FloatCeil(IntTrueDiv(new_l * init_dilation, dilation)),
                    n |-> FloatCeil(IntTrueDiv(n * dilation, init_dilation))] :
                new_l \in {IF FloatIsOne(dilation_factor) THEN l
                           ELSE dilate_new_l(l, dilation_factor)}} :
               dilation_factor \in {IntTrueDiv(dilation, init_dilation)}} : TRUE

\* dilate, given the lengths s it computed: the padding, then the reshape.
dilate_tensor(x, s, pad_start) ==
    LET padded == IF s.new_l # x.shape[3]
                  THEN constant_pad_1d(x, s.new_l, 2, 0, pad_start)
                  ELSE [raised |-> FALSE, t |-> x]
        r == dilate_reshape(padded.t, s.l, s.n)
    IN  IF s.identity
        THEN [raised |-> FALSE, at |-> "identity", t |-> x,
              new_l |-> s.new_l, xpad |-> x, l |-> s.l, n |-> s.n]
        ELSE IF padded.raised
        THEN [raised |-> TRUE, at |-> "pad", t |-> x,
              new_l |-> s.new_l, xpad |-> x, l |-> s.l, n |-> s.n]
        ELSE IF r.raised
        THEN [raised |-> TRUE, at |-> "view", t |-> x,
              new_l |-> s.new_l, xpad |-> padded.t, l |-> s.l, n |-> s.n]
        ELSE [raised |-> FALSE, at |-> "", t |-> r.t,
              new_l |-> s.new_l, xpad |-> padded.t, l |-> s.l, n |-> s.n]

\* dilate(x, dilation, init_dilation, pad_start).  The result records what the
\* code computes on its way: new_l, the padded x, the l and n of the view, and
\* where it raised (in the padding's assertion, or in the view).  The lengths
\* are bound as values before the tensor is built.
dilate(x, dilation, init_dilation, pad_start) ==
    CHOOSE r \in {dilate_tensor(x, s, pad_start) :
                    s \in {dilate_sizes(x.shape[1], x.shape[3], dilation, init_dilation)}} :
        TRUE

\* The input tensor whose elements are numbered 1, 2, ... in contiguous order:
\* all different, and none equal to the padding value 0.
Numbered(shape) == [shape |-> shape, flat |-> [p \in 1 .. Numel(shape) |-> p]]

\* ------------------------------------------------ the padding primitive
PadInit ==
    /\ inp \in {[fn |-> "pad", input |-> Numbered(<<a, b, c>>), target_size |-> t,
                 dimension |-> dm, value |-> v, pad_start |-> ps] :
                  a \in 1 .. MaxPadDim, b \in 1 .. MaxPadDim, c \in 1 .. MaxPadDim,
                  t \in 1 .. MaxPadTarget, dm \in 0 .. 2, v \in {0, -1},
                  ps \in BOOLEAN}
    /\ out = NoOut
    /\ pc = "call"
    /\ queue = NewQueue(1)
    /\ call = NoCall
    /\ ret = NoRet
    /\ hist = <<>>

Pad ==
    /\ pc = "call"
    /\ inp.fn = "pad"
    /\ out' = [fn |-> "pad",
               r |-> constant_pad_1d(inp.input, inp.target_size, inp.dimension,
                                     inp.value, inp.pad_start)]
    /\ pc' = "done"
    /\ UNCHANGED <<queue, call, ret, hist, inp>>

PadNext == Pad

SpecPad == PadInit /\ [][PadNext]_vars

\* C7: for an input of length L <= target_size along the chosen axis,
\* constant_pad_1d returns a tensor of length target_size along that axis and
\* unchanged in the other axes; the input occupies, in order, the last L
\* positions when pad_start is true and the first L when it is false, and the
\* other target_size - L positions hold the fill value.
C7_PadPlacesInputAndFill ==
    (pc = "done" /\ out.fn = "pad"
       /\ inp.input.shape[inp.dimension + 1] <= inp.target_size)
    => LET x == inp.input
           ax == inp.dimension + 1
           L == x.shape[ax]
           T == inp.target_size
           y == out.r.t
       IN  /\ ~out.r.raised
           /\ y.shape = [x.shape EXCEPT ![ax] = T]
           /\ Len(y.flat) = Numel(y.shape)
           /\ \A i \in 0 .. y.shape[1] - 1, j \in 0 .. y.shape[2] - 1,
                 k \in 0 .. y.shape[3] - 1 :
                LET ix == <<i, j, k>>
                    pos == ix[ax]
                    first == IF inp.pad_start THEN T - L ELSE 0
                    src == [ix EXCEPT ![ax] = pos - first]
                IN  At(y, i, j, k) =
                      IF pos >= first /\ pos < first + L
                      THEN At(x, src[1], src[2], src[3])
                      ELSE inp.value

\* C7's case: start-padding along the middle axis of an input with several
\* positions along it, the target longer than the input.
C7_Witness ==
    /\ pc = "done"
    /\ out.fn = "pad"
    /\ ~out.r.raised
    /\ inp.pad_start
    /\ inp.dimension = 1
    /\ inp.input.shape[2] >= 2
    /\ inp.input.shape[2] < inp.target_size
    /\ inp.input.shape[3] >= 2

\* ------------------------------------------------------ dilate, one call
DilateInit ==
    /\ inp \in {[fn |-> "dilate", x |-> Numbered(<<n, c, l>>), dilation |-> d,
                 init_dilation |-> i, pad_start |-> ps] :
                  n \in 1 .. MaxBatch, c \in 1 .. MaxChannels, l \in 1 .. MaxLength,
                  d \in 1 .. MaxDil, i \in 1 .. MaxBatch, ps \in BOOLEAN}
    /\ out = NoOut
    /\ pc = "call"
    /\ queue = NewQueue(1)
    /\ call = NoCall
    /\ ret = NoRet
    /\ hist = <<>>

Dilate ==
    /\ pc = "call"
    /\ inp.fn = "dilate"
    /\ out' = [fn |-> "dilate",
               r |-> dilate(inp.x, inp.dilation, inp.init_dilation, inp.pad_start)]
    /\ pc' = "done"
    /\ UNCHANGED <<queue, call, ret, hist, inp>>

DilateNext == Dilate

SpecDilate == DilateInit /\ [][DilateNext]_vars

\* x with zeros added along the length axis up to new_l, at the start or at
\* the end.
ZeroPadded(x, new_l, pad_start) ==
    LET l == x.shape[3]
        shape == <<x.shape[1], x.shape[2], new_l>>
        Elem(b, ch, t) ==
            IF pad_start
            THEN (IF t < new_l - l THEN 0 ELSE At(x, b, ch, t - (new_l - l)))
            ELSE (IF t < l THEN At(x, b, ch, t) ELSE 0)
    IN  [shape |-> shape,
         flat |-> [p \in 1 .. Numel(shape) |->
                     LET ix == Unravel(shape, p - 1) IN Elem(ix[1], ix[2], ix[3])]]

\* C8: for x of shape (n, c, l) and an integer factor f = dilation /
\* init_dilation >= 2, dilate returns a tensor of shape (n*f, c, new_l/f), new_l
\* the smallest multiple of f that is >= l, with
\* out[i][ch][j] = xpad[i mod n][ch][j*f + (i div n)], xpad being x with
\* new_l - l zeros added at the start (pad_start) or at the end; the output has
\* as many elements as xpad.
C8_DilationLayout ==
    (pc = "done" /\ out.fn = "dilate"
       /\ inp.dilation % inp.init_dilation = 0
       /\ inp.dilation \div inp.init_dilation >= 2)
    => LET x == inp.x
           n == x.shape[1]
           c == x.shape[2]
           l == x.shape[3]
           f == inp.dilation \div inp.init_dilation
           new_l == ((l + f - 1) \div f) * f
           xpad == ZeroPadded(x, new_l, inp.pad_start)
           y == out.r.t
       IN  /\ ~out.r.raised
           /\ out.r.new_l = new_l
           /\ out.r.xpad.shape = xpad.shape
           /\ \A p \in 1 .. Numel(xpad.shape) : out.r.xpad.flat[p] = xpad.flat[p]
           /\ y.shape = <<n * f, c, new_l \div f>>
           /\ Len(y.flat) = n * c * new_l
           /\ \A i \in 0 .. n * f - 1, ch \in 0 .. c - 1, j \in 0 .. (new_l \div f) - 1 :
                At(y, i, ch, j) = At(xpad, i % n, ch, j * f + (i \div n))

\* C8's case: several batch rows and channels, a factor >= 2 from an
\* init_dilation > 1, and a length that needs padding at the start.
C8_Witness ==
    /\ pc = "done"
    /\ out.fn = "dilate"
    /\ ~out.r.raised
    /\ inp.init_dilation >= 2
    /\ inp.dilation % inp.init_dilation = 0
    /\ inp.dilation \div inp.init_dilation >= 2
    /\ inp.x.shape[1] >= 2
    /\ inp.x.shape[2] >= 2
    /\ inp.pad_start
    /\ out.r.new_l > inp.x.shape[3]
    /\ out.r.t.shape[3] >= 2

\* C9: for positive dilation # init_dilation (an integer ratio or not) and an
\* input of shape (n = init_dilation, c, l), the padded tensor is exactly
\* reshapeable: n * new_l = n' * l', so the view never hits an element-count
\* mismatch.
C9_ReshapeableAfterPadding ==
    (pc = "done" /\ out.fn = "dilate"
       /\ inp.dilation # inp.init_dilation
       /\ inp.x.shape[1] = inp.init_dilation)
    => /\ out.r.at # "view"
       /\ inp.x.shape[1] * out.r.new_l = out.r.n * out.r.l

\* --------------------------------------------------- dilate, round trip
\* y = dilate(x, d), then dilate(y, 1, init_dilation=d), for x of shape
\* (n, 1, l) with l a multiple of d.
RoundTripInit ==
    /\ inp \in {[fn |-> "roundtrip", x |-> Numbered(<<n, 1, k * d>>), d |-> d] :
                  n \in 1 .. MaxRtBatch, k \in 1 .. MaxRtRepeat,
                  d \in 1 .. MaxRtDilation}
    /\ out = NoOut
    /\ pc = "call"
    /\ queue = NewQueue(1)
    /\ call = NoCall
    /\ ret = NoRet
    /\ hist = <<>>

RtDilate ==
    /\ pc = "call"
    /\ inp.fn = "roundtrip"
    /\ out' = [fn |-> "roundtrip", dilated |-> dilate(inp.x, inp.d, 1, TRUE)]
    /\ pc' = "dilated"
    /\ UNCHANGED <<queue, call, ret, hist, inp>>

RtUndilate ==
    /\ pc = "dilated"
    /\ ~out.dilated.raised
    /\ out' = [fn |-> "undilated", dilated |-> out.dilated,
               r |-> dilate(out.dilated.t, 1, inp.d, TRUE)]
    /\ pc' = "done"
    /\ UNCHANGED <<queue, call, ret, hist, inp>>

RoundTripNext == RtDilate \/ RtUndilate

SpecRoundTrip == RoundTripInit /\ [][RoundTripNext]_vars

\* C4: for x of shape (n, c, l) and d >= 1 with l a multiple of d,
\* dilate(dilate(x, d), 1, init_dilation=d) has the shape of x and equals x
\* element for element, and no padding is introduced in either direction.
C4_DilationRoundTrip ==
    /\ pc = "dilated" => (~out.dilated.raised /\ out.dilated.new_l = inp.x.shape[3])
    /\ pc = "done"
       => /\ ~out.r.raised
          /\ out.r.new_l = out.dilated.t.shape[3]
          /\ out.r.t.shape = inp.x.shape
          /\ \A p \in 1 .. Numel(inp.x.shape) : out.r.t.flat[p] = inp.x.flat[p]

\* ------------------------------------------- mixture of logistics: shapes
\* The two functions take a parameter tensor of shape (N, P).  Their slices,
\* broadcasts, reductions and gathers are modelled by their shapes, which
\* decide whether a call raises; the blend of the loss is modelled by value.
MaxMixBatch == 2
MaxParams == 7

CdfThreshold == 10
UpperSaturation == 999
LowerSaturation == -999

\* The size of one axis of a broadcast, -1 when the sizes are incompatible
BroadcastDim(a, b) ==
    IF a = b THEN a ELSE IF a = 1 THEN b ELSE IF b = 1 THEN a ELSE -1

\* The shape of an elementwise operation on 2-d operands of shapes s and t
Broadcast(s, t) ==
    LET r == <<BroadcastDim(s[1], t[1]), BroadcastDim(s[2], t[2])>>
    IN  [raised |-> r[1] < 0 \/ r[2] < 0, shape |-> r]

\* The widths of weights = input[:, :nr_mix], means = input[:, nr_mix:2*nr_mix]
\* and log_scales = input[:, 2*nr_mix:] for a last axis of length P
mix_slices(P) ==
    LET nr_mix == P \div 3
    IN  [nr_mix |-> nr_mix,
         weights |-> Len(SliceIndices(P, 0, nr_mix, 1)),
         means |-> Len(SliceIndices(P, nr_mix, 2 * nr_mix, 1)),
         log_scales |-> Len(SliceIndices(P, 2 * nr_mix, P, 1))]

\* torch.max(x, dim=axis) over the last axis of a 2-d x: no maximum over an
\* axis of length 0
max_last_raises(shape) == shape[2] = 0

\* torch.gather(input, dim=1, index): index may not be longer than input along
\* axis 0, and its entries index axis 1 of input
gather_raises(input_shape, index_shape, index_bound) ==
    \/ index_shape[1] > input_shape[1]
    \/ (index_shape[1] > 0 /\ index_shape[2] > 0 /\ index_bound > input_shape[2])

\* The shapes discretized_mix_logistic_loss goes through for input (N, P) and
\* target (N), up to the blend: elem is the shape of pos_in, neg_in, mid_in,
\* cdf_delta and the three outs.
loss_shapes(N, P) ==
    LET s == mix_slices(P)
        target == <<N, 1>>
        distances_to_target == Broadcast(target, <<N, s.means>>)
        pos_in == Broadcast(<<N, s.log_scales>>, distances_to_target.shape)
        log_pdf_mid == Broadcast(pos_in.shape, <<N, s.log_scales>>)
        out_2 == Broadcast(target, log_pdf_mid.shape)
    IN  [slices |-> s,
         raised |-> \/ distances_to_target.raised
                    \/ pos_in.raised
                    \/ log_pdf_mid.raised
                    \/ out_2.raised,
         elem |-> out_2.shape]

\* -------------------------------------------- mixture of logistics: blend
\* target is held in thousandths and cdf_delta in millionths, so that the
\* comparisons with 0.999, -0.999 and 1e-5 are comparisons of integers.  The
\* four candidate log-probabilities are values of log, sigmoid and softplus;
\* each is represented by a finite number of its own for every element (n, k),
\* so that the result of the blend shows which candidate it took.
log_cdf_delta(cdf_delta) == 0 - (1000 + cdf_delta)

log_pdf_mid_shifted(n, k) == 0 - (2000 + 10 * n + k)

log_one_minus_cdf_neg(n, k) == 0 - (3000 + 10 * n + k)

log_cdf_pos(n, k) == 0 - (4000 + 10 * n + k)

\* condition_1 = (cdf_delta > 1e-5).float()
condition_1(cdf_delta) == IF cdf_delta > CdfThreshold THEN 1 ELSE 0

\* condition_2 = (target > 0.999).float()
condition_2(target) == IF target > UpperSaturation THEN 1 ELSE 0

\* condition_3 = (target < -0.999).float()
condition_3(target) == IF target < LowerSaturation THEN 1 ELSE 0

out_1(cdf_delta, n, k) ==
    condition_1(cdf_delta) * log_cdf_delta(cdf_delta)
      + (1 - condition_1(cdf_delta)) * log_pdf_mid_shifted(n, k)

out_2_operands_swapped(target, o1, n, k) ==
    condition_2(target) * o1 + (1 - condition_2(target)) * log_one_minus_cdf_neg(n, k)

out_2(target, o1, n, k) ==
    condition_2(target) * log_one_minus_cdf_neg(n, k) + (1 - condition_2(target)) * o1

out_3(target, o2, n, k) ==
    condition_3(target) * log_cdf_pos(n, k) + (1 - condition_3(target)) * o2

\* discretized_mix_logistic_loss(input, target, reduce=reduce) for input of
\* shape (N, P): where it raised, if it did, the out_3 it computed, and the
\* shape of what it returned.
discretized_mix_logistic_loss(N, P, target, cdf_delta, reduce) ==
    LET sh == loss_shapes(N, P)
        s == sh.slices
        blend == [n \in 1 .. sh.elem[1] |-> [k \in 1 .. sh.elem[2] |->
                    out_3(target[n],
                          out_2(target[n], out_1(cdf_delta[n][k], n, k), n, k),
                          n, k)]]
        log_probabilities == Broadcast(sh.elem, <<N, s.weights>>)
    IN  IF sh.raised
        THEN [raised |-> TRUE, at |-> "broadcast", slices |-> s,
              elem |-> <<0, 0>>, out_3 |-> <<>>, shape |-> <<>>]
        ELSE IF max_last_raises(<<N, s.weights>>)
        THEN [raised |-> TRUE, at |-> "log_prob_from_logits", slices |-> s,
              elem |-> sh.elem, out_3 |-> blend, shape |-> <<>>]
        ELSE IF log_probabilities.raised
        THEN [raised |-> TRUE, at |-> "broadcast", slices |-> s,
              elem |-> sh.elem, out_3 |-> blend, shape |-> <<>>]
        ELSE IF max_last_raises(log_probabilities.shape)
        THEN [raised |-> TRUE, at |-> "log_sum_exp", slices |-> s,
              elem |-> sh.elem, out_3 |-> blend, shape |-> <<>>]
        ELSE [raised |-> FALSE, at |-> "", slices |-> s,
              elem |-> sh.elem, out_3 |-> blend,
              shape |-> IF reduce THEN <<>> ELSE <<N>>]

\* sample_from_discretized_mix_logistic(parameters) for parameters of shape
\* (N, P), argmax being the mixture the noise selected in each row: where it
\* raised, if it did, the columns of parameters the selected mean and log-scale
\* were gathered from, and the shape of what it returned.
sample_from_discretized_mix_logistic(N, P, argmax) ==
    LET s == mix_slices(P)
        selection == <<N, 1>>
        means == <<N, s.means>>
        log_scales == <<N, s.log_scales>>
    IN  IF max_last_raises(<<N, s.weights>>)
        THEN [raised |-> TRUE, at |-> "max", slices |-> s,
              mean_col |-> <<>>, log_scale_col |-> <<>>, shape |-> <<>>]
        ELSE IF \/ gather_raises(means, selection, s.weights)
                \/ gather_raises(log_scales, selection, s.weights)
        THEN [raised |-> TRUE, at |-> "gather", slices |-> s,
              mean_col |-> <<>>, log_scale_col |-> <<>>, shape |-> <<>>]
        ELSE [raised |-> FALSE, at |-> "", slices |-> s,
              mean_col |-> [n \in 1 .. N |-> s.nr_mix + argmax[n]],
              log_scale_col |-> [n \in 1 .. N |-> 2 * s.nr_mix + argmax[n]],
              shape |-> selection]

TargetGrid ==
    {LowerSaturation - 1, LowerSaturation, 0, UpperSaturation, UpperSaturation + 1}

CdfGrid == {CdfThreshold, CdfThreshold + 1}

MixInit ==
    /\ \E N \in 1 .. MaxMixBatch, P \in 1 .. MaxParams :
         \E target \in [1 .. N -> TargetGrid],
            cdf_delta \in [1 .. N -> [1 .. (IF loss_shapes(N, P).raised THEN 0
                                            ELSE loss_shapes(N, P).elem[2]) -> CdfGrid]] :
           inp = [fn |-> "mix", N |-> N, P |-> P,
                  target |-> target, cdf_delta |-> cdf_delta]
    /\ out = NoOut
    /\ pc = "call"
    /\ queue = NewQueue(1)
    /\ call = NoCall
    /\ ret = NoRet
    /\ hist = <<>>

Loss ==
    /\ pc = "call"
    /\ inp.fn = "mix"
    /\ \E reduce \in BOOLEAN :
         out' = [fn |-> "loss", reduce |-> reduce,
                 r |-> discretized_mix_logistic_loss(inp.N, inp.P, inp.target,
                                                     inp.cdf_delta, reduce)]
    /\ pc' = "done"
    /\ UNCHANGED <<queue, call, ret, hist, inp>>

Sample ==
    /\ pc = "call"
    /\ inp.fn = "mix"
    /\ \E argmax \in [1 .. inp.N -> 0 .. (IF inp.P < 3 THEN 0 ELSE (inp.P \div 3) - 1)] :
         out' = [fn |-> "sample", argmax |-> argmax,
                 r |-> sample_from_discretized_mix_logistic(inp.N, inp.P, argmax)]
    /\ pc' = "done"
    /\ UNCHANGED <<queue, call, ret, hist, inp>>

MixNext == Loss \/ Sample

SpecMix == MixInit /\ [][MixNext]_vars

\* C6: loss and sample raise whenever the last-axis length P of the parameter
\* tensor is not divisible by 3; neither returns a result computed from
\* weight, mean and log-scale slices of unequal width.
C6_IndivisibleLengthRaises ==
    (pc = "done" /\ out.fn \in {"loss", "sample"})
    => /\ inp.P % 3 # 0 => out.r.raised
       /\ ~out.r.raised => /\ out.r.slices.weights = out.r.slices.means
                           /\ out.r.slices.means = out.r.slices.log_scales

=============================================================================
